---- MODULE Spec2Model ----
(***************************************************************************)
(* Model of the ESP32 smart-watering firmware (src/water_suplly.ino).      *)
(*                                                                         *)
(* Two tasks share the globals cfg, pumpRunning, secondsToday and          *)
(* wateredToday: the Arduino loop task, which runs loop() over and over,   *)
(* and the NimBLE host task, which runs the characteristic callbacks       *)
(* (CmdCallbacks::onWrite, ConfigCallbacks::onRead/onWrite) one at a time. *)
(* A delay() blocks only the task that calls it.  Time is counted in whole *)
(* seconds; TimePasses is one second of wall-clock time elapsing.  What is *)
(* written to the command characteristic is a text, which CmdOnWrite takes *)
(* apart as the if-chain of CmdCallbacks::onWrite does.                    *)
(*                                                                         *)
(* Left out: the tank-level reading (lines 276-283) and the soil, level    *)
(* and state notifications, which write no variable modelled here, and     *)
(* clientConnected, which only decides whether a log line is also sent     *)
(* over BLE.                                                               *)
(***************************************************************************)
EXTENDS Integers, Sequences, FiniteSets, TLC

VARIABLES
    cfg,           \* struct Config cfg (lines 25-33)
    prefs,         \* the "watering" Preferences namespace: << >> or << saved Config >>
    pumpRunning,   \* bool pumpRunning
    relayPin,      \* level of RELAY_PIN: TRUE = HIGH, FALSE = LOW
    secondsToday,  \* uint32_t secondsToday
    wateredToday,  \* bool wateredToday
    secDue,        \* millis() - lastSecond >= 1000
    soilDue,       \* millis() - lastSoilTime > 1000
    loopPc,        \* position of the loop task inside loop()
    loopRemain,    \* whole seconds left of the delay() the loop task is in
    blePc,         \* position of the BLE host task: idle or inside a blocking command
    bleRemain,     \* whole seconds left of the delay() the BLE task is in
    tuneSum,       \* AUTOTUNE: uint32_t sum
    tuneN,         \* AUTOTUNE: int n
    configChr,     \* value of the config characteristic (pConfigChr)
    logged,        \* the lines log() printed during the latest step
    elapsed,       \* wall-clock seconds gone by, counted up to MaxElapsed
    writes,        \* BLE requests (writes and reads) delivered so far
    onCmd,         \* history: an ON command is in force (no OFF/TOGGLE since)
    cancelledBy,   \* history: command that stopped the loop task's run in progress
    schedStarts,   \* history: scheduled runs started since secondsToday was last 0
    autoFired,     \* history: this pass of loop() started a threshold run
    wallSecond     \* history: the second of the day by the wall clock

vars == <<cfg, prefs, pumpRunning, relayPin, secondsToday, wateredToday, secDue,
          soilDue, loopPc, loopRemain, blePc, bleRemain, tuneSum, tuneN,
          configChr, logged, elapsed, writes, onCmd, cancelledBy, schedStarts,
          autoFired, wallSecond>>

-----------------------------------------------------------------------------
(* Bounds of the exploration. *)

MaxElapsed == 3
MaxWrites == 2
\* AUTOTUNE requests are explored up to this second.
MaxTuneStart == 0

(* Program constants. *)

DaySecs == 86400
ResetSecs == 10
ScheduleWindowSecs == 20
HourSecs == 3600
MinSecs == 60
RecordLen == 10
VersionMarker == 170
AutotuneMargin == 200
AutotuneSettleSecs == 2
AutotuneWindowSecs == 10
U8 == 256
U16 == 65536
IntMax == 2147483647
MsPerSec == 1000

DefaultConfig ==
    [threshold |-> 2200, flowPct |-> 100, startHour |-> 7, startMin |-> 0,
     durationSec |-> 30, scheduleOn |-> FALSE, relayActiveLow |-> TRUE]

\* The namespace with no key stored; otherwise prefs is << the saved Config >>.
NoPrefs == << >>

-----------------------------------------------------------------------------
(* Pure helpers. *)

Bit(b) == IF b THEN 1 ELSE 0

lowByte(x) == x % U8

highByte(x) == (x \div U8) % U8

\* packConfig() with the two bytes of durationSec in the wrong order.
packConfigSwapped(c) ==
    << lowByte(c.threshold), highByte(c.threshold), c.flowPct, c.startHour,
       c.startMin, highByte(c.durationSec), lowByte(c.durationSec),
       Bit(c.scheduleOn), Bit(c.relayActiveLow), VersionMarker >>

\* packConfig(): the 10-byte record of a Config.
packConfig(c) ==
    << lowByte(c.threshold), highByte(c.threshold), c.flowPct, c.startHour,
       c.startMin, lowByte(c.durationSec), highByte(c.durationSec),
       Bit(c.scheduleOn), Bit(c.relayActiveLow), VersionMarker >>

\* The field assignments of unpackConfig() (data is 1-indexed here).
unpackFields(data) ==
    [threshold      |-> (data[1] + data[2] * U8) % U16,
     flowPct        |-> data[3] % U8,
     startHour      |-> data[4] % U8,
     startMin       |-> data[5] % U8,
     durationSec    |-> (data[6] + data[7] * U8) % U16,
     scheduleOn     |-> data[8] # 0,
     relayActiveLow |-> data[9] # 0]

\* loadConfig(): every key falls back to the current field when absent.
\* saveConfig() writes all seven keys together, so they are all present or all absent.
loadConfig(stored, current) == IF stored = NoPrefs THEN current ELSE stored[1]

\* Level written to RELAY_PIN by setPump(on).
relayLevel(c, on) == IF c.relayActiveLow THEN ~on ELSE on

PumpLine(on) == IF on THEN "Pump ON" ELSE "Pump OFF"

\* nowSec of the schedule check.
windowStart(c) == c.startHour * HourSecs + c.startMin * MinSecs

inWindow(c, s) == s >= windowStart(c) /\ s < windowStart(c) + ScheduleWindowSecs

-----------------------------------------------------------------------------
(* Command texts: a text is a sequence of characters, each a one-character *)
(* string; NUL stands for the byte 0.                                      *)

NUL == "NUL"

TextON == << "O", "N" >>
TextOFF == << "O", "F", "F" >>
TextTOGGLE == << "T", "O", "G", "G", "L", "E" >>
TextWATER == << "W", "A", "T", "E", "R", ":" >>
TextAUTOTUNE == << "A", "U", "T", "O", "T", "U", "N", "E" >>

DigitChars == << "0", "1", "2", "3", "4", "5", "6", "7", "8", "9" >>

isDigit(ch) == \E d \in 1 .. Len(DigitChars) : DigitChars[d] = ch

digitOf(ch) == (CHOOSE d \in 1 .. Len(DigitChars) : DigitChars[d] = ch) - 1

\* Line 151: String(value.c_str()) keeps the bytes before the first NUL.
RECURSIVE cString(_)
cString(value) ==
    IF value = << >> \/ Head(value) = NUL
    THEN << >>
    ELSE << Head(value) >> \o cString(Tail(value))

\* String::startsWith.
startsWith(text, prefix) ==
    Len(text) >= Len(prefix) /\ SubSeq(text, 1, Len(prefix)) = prefix

\* String::substring(from): the text from the 0-based index from on.
substring(text, from) == SubSeq(text, from + 1, Len(text))

\* The value of the digits a text starts with, acc being that of those read.
RECURSIVE leadingDigits(_, _)
leadingDigits(text, acc) ==
    IF text = << >> \/ ~isDigit(Head(text))
    THEN acc
    ELSE leadingDigits(Tail(text), acc * 10 + digitOf(Head(text)))

\* String::toInt (atol): an optional sign and the digits that follow it, 0 where
\* there is none.  The texts explored have no leading blanks.
toInt(text) ==
    IF text # << >> /\ Head(text) = "-"
    THEN 0 - leadingDigits(Tail(text), 0)
    ELSE leadingDigits(text, 0)

\* Lines 153-186: the branch of the if-chain that the text cmd takes.
command(cmd) ==
    IF cmd = TextON THEN "ON"
    ELSE IF cmd = TextOFF THEN "OFF"
    ELSE IF cmd = TextTOGGLE THEN "TOGGLE"
    ELSE IF startsWith(cmd, TextWATER) THEN "WATER"
    ELSE IF startsWith(cmd, TextAUTOTUNE) THEN "AUTOTUNE"
    ELSE "UNKNOWN"

\* Line 164: the low 32 bits of sec * 1000, in whole seconds.  Computed on the
\* 16-bit halves of sec, so that no intermediate value exceeds 31 bits: the
\* product is (sec \div 2^16) * 1000 * 2^16 + (sec % 2^16) * 1000.
wrappedMsAsSecs(sec) ==
    LET lowPart  == (sec % U16) * MsPerSec
        highHalf == ((sec \div U16) * MsPerSec + lowPart \div U16) % U16
        lowHalf  == lowPart % U16
    IN  (highHalf \div MsPerSec) * U16
          + ((highHalf % MsPerSec) * U16 + lowHalf) \div MsPerSec

\* Line 164: delay(sec * 1000) in whole seconds.  The product is an int; where
\* it overflows the behaviour is undefined: the low 32 bits of the product
\* taken as the uint32_t argument of delay(), or the full product.
delaySecs(sec) ==
    IF sec <= IntMax \div MsPerSec
    THEN { sec }
    ELSE { wrappedMsAsSecs(sec), sec }

-----------------------------------------------------------------------------
(* Inputs explored. *)

\* A schedule at 00:00, whose window [0, 20) overlaps the midnight reset range.
CfgMidnight ==
    [threshold |-> 2200, flowPct |-> 100, startHour |-> 0, startMin |-> 0,
     durationSec |-> 1, scheduleOn |-> TRUE, relayActiveLow |-> TRUE]

\* The default 07:00 schedule switched on, with a short run.
CfgMorning ==
    [threshold |-> 2200, flowPct |-> 100, startHour |-> 7, startMin |-> 0,
     durationSec |-> 1, scheduleOn |-> TRUE, relayActiveLow |-> TRUE]

\* Threshold mode with a low threshold, a short run and an active-high relay.
CfgDry ==
    [threshold |-> 900, flowPct |-> 50, startHour |-> 7, startMin |-> 0,
     durationSec |-> 2, scheduleOn |-> FALSE, relayActiveLow |-> FALSE]

\* A record whose bytes are outside the documented ranges: startHour 200,
\* startMin 99, flowPct 255, durationSec 0, scheduleOn byte 2, no version marker.
RawOdd == << 152, 8, 255, 200, 99, 0, 0, 2, 0, 0 >>

\* Payloads written to the config characteristic: a valid record, an odd one,
\* one a byte too short, and an empty one.
ConfigPayloads ==
    { packConfig(CfgMidnight), RawOdd,
      SubSeq(packConfig(CfgMidnight), 1, RecordLen - 1), << >> }

\* What the device starts from: the stored configuration and the value of
\* secondsToday.  Boot is second 0; the later seconds are reached by idling with
\* the pump off and no scheduled run yet that day.
Starts ==
    { << NoPrefs, 0 >>, << << CfgDry >>, 0 >>,
      << << CfgMorning >>, 25199 >>,
      << NoPrefs, 86398 >>, << << CfgDry >>, 86398 >> }

SoilReadings == { 1000, 2200, 2500 }

\* Soil readings an AUTOTUNE window may see.
TuneReadings == { 1000, 2500 }

\* Steady readings over the whole range of analogRead()'s uint16_t result: the
\* ends of the 12-bit converter's range and of the 16-bit range, and the two
\* readings on either side of 65535 - 200.
WideReadings == { 0, 1000, 4095, 65335, 65336, 65535 }

WaterArgs == { 0, 1 }

\* Command texts written to the command characteristic: the five commands, a
\* WATER without a number, with a negative one and with one whose milliseconds
\* exceed an int, a text that AUTOTUNE is a prefix of, an ON followed by a NUL
\* and more bytes, and texts that no branch matches.
CmdTexts ==
    { TextON, TextOFF, TextTOGGLE, TextAUTOTUNE,
      TextWATER \o << "1" >>, TextWATER \o << "0" >>, TextWATER,
      TextWATER \o << "x", "9" >>, TextWATER \o << "-", "5" >>,
      TextWATER \o << "4", "2", "9", "4", "9", "6", "8" >>,
      TextAUTOTUNE \o << "X" >>,
      TextON \o << NUL, "!" >>,
      << "o", "n" >>, << "S", "T", "O", "P" >>, << >> }

-----------------------------------------------------------------------------
(* State after setup(), and after idling with the pump off. *)

Init ==
    /\ \E st \in Starts : prefs = st[1] /\ secondsToday = st[2]
    /\ cfg = loadConfig(prefs, DefaultConfig)
    /\ pumpRunning = FALSE
    /\ relayPin = relayLevel(DefaultConfig, FALSE)
    /\ wateredToday = FALSE
    /\ secDue \in BOOLEAN
    /\ soilDue = secDue
    /\ loopPc = "ticker"
    /\ loopRemain = 0
    /\ blePc = "idle"
    /\ bleRemain = 0
    /\ tuneSum = 0
    /\ tuneN = 0
    /\ configChr = << >>
    /\ logged = << "Smart Watering System Ready!" >>
    /\ elapsed = 0
    /\ writes = 0
    /\ onCmd = FALSE
    /\ cancelledBy = "none"
    /\ schedStarts = 0
    /\ autoFired = FALSE
    /\ wallSecond = IF secDue THEN (secondsToday + 1) % DaySecs ELSE secondsToday

-----------------------------------------------------------------------------
(* setPump(on), followed by the lines the caller logs after it. *)

setPump(on, more) ==
    /\ pumpRunning' = on
    /\ relayPin' = relayLevel(cfg, on)
    /\ logged' = << PumpLine(on) >> \o more

\* saveConfig() returning without a write to the store.
saveConfigDropped(c) == UNCHANGED prefs

\* Lines 36-46: saveConfig() stores every field of the Config c.
saveConfig(c) == prefs' = << c >>

\* Positions of the BLE task inside the delays of AUTOTUNE.
TunePcs == { "settle", "sample" }

\* AUTOTUNE samples every 100 ms; the samples of one second are taken as one, at
\* the start of that second.
samplePending ==
    blePc = "sample" /\ bleRemain > 0 /\ tuneN <= AutotuneWindowSecs - bleRemain

\* Positions of the loop task inside the delay of a run it started.
RunPcs == { "autoDelay", "schedDelay" }

-----------------------------------------------------------------------------
(* The loop task. *)

\* Line 255 without the modulo: the counter runs past the end of the day.
nextSecondNoWrap(s) == s + 1

\* Line 255: the second that follows second s of the day.
nextSecond(s) == (s + 1) % DaySecs

\* Line 256 with "== 0" for "< 10": only the tick onto midnight resets the flag.
afterTickAtMidnightOnly(s, watered) == IF s = 0 THEN FALSE ELSE watered

\* Line 256: wateredToday after a tick that left the counter at s.
afterTick(s, watered) == IF s < ResetSecs THEN FALSE ELSE watered

\* Lines 253-257: the one-second ticker.
LoopTicker ==
    /\ loopPc = "ticker"
    /\ loopPc' = "soil"
    /\ IF secDue
       THEN /\ secDue' = FALSE
            /\ secondsToday' = nextSecond(secondsToday)
            /\ wateredToday' = afterTick(nextSecond(secondsToday), wateredToday)
            /\ schedStarts' = IF nextSecond(secondsToday) = 0
                              THEN 0 ELSE schedStarts
       ELSE UNCHANGED <<secDue, secondsToday, wateredToday, schedStarts>>
    /\ logged' = << >>
    /\ UNCHANGED <<cfg, prefs, pumpRunning, relayPin, soilDue, loopRemain, blePc,
                   bleRemain, tuneSum, tuneN, configChr, elapsed, writes, onCmd,
                   cancelledBy,
                   autoFired, wallSecond>>

\* Line 268 with >= for >: a reading equal to the threshold counts as dry.
autoConditionAtThreshold(c, soil, running) ==
    ~c.scheduleOn /\ soil >= c.threshold /\ ~running

\* Line 268: the condition that starts a threshold run.
autoCondition(c, soil, running) ==
    ~c.scheduleOn /\ soil > c.threshold /\ ~running

\* Lines 260-274: soil reading, and the start of a threshold run.
LoopSoil(soil) ==
    /\ loopPc = "soil"
    /\ soilDue
    /\ soilDue' = FALSE
    /\ IF autoCondition(cfg, soil, pumpRunning)
       THEN /\ setPump(TRUE, << >>)
            /\ loopRemain' = cfg.durationSec
            /\ loopPc' = "autoDelay"
            /\ cancelledBy' = "none"
            /\ autoFired' = TRUE
       ELSE /\ loopPc' = "sched"
            /\ logged' = << >>
            /\ UNCHANGED <<pumpRunning, relayPin, loopRemain, cancelledBy,
                           autoFired>>
    /\ UNCHANGED <<cfg, prefs, secondsToday, wateredToday, secDue, blePc,
                   bleRemain, tuneSum, tuneN, configChr, elapsed, writes, onCmd,
                   schedStarts, wallSecond>>

\* Line 260, condition false: no reading this pass.
LoopSoilSkip ==
    /\ loopPc = "soil"
    /\ ~soilDue
    /\ loopPc' = "sched"
    /\ logged' = << >>
    /\ UNCHANGED <<cfg, prefs, pumpRunning, relayPin, secondsToday, wateredToday,
                   secDue, soilDue, loopRemain, blePc, bleRemain, tuneSum, tuneN,
                   configChr, elapsed, writes, onCmd, cancelledBy, schedStarts,
                   autoFired, wallSecond>>

\* Lines 270-272: the threshold run's delay is over.
LoopAutoDone ==
    /\ loopPc = "autoDelay"
    /\ loopRemain = 0
    /\ setPump(FALSE, << "Auto watering completed" >>)
    /\ loopPc' = "sched"
    /\ cancelledBy' = "none"
    /\ UNCHANGED <<cfg, prefs, secondsToday, wateredToday, secDue, soilDue,
                   loopRemain, blePc, bleRemain, tuneSum, tuneN, configChr,
                   elapsed, writes, onCmd, schedStarts,
                   autoFired, wallSecond>>

\* Lines 286-288: the condition that starts a scheduled run.
schedCondition(c, watered, s) ==
    c.scheduleOn /\ ~watered /\ inWindow(c, s)

\* Lines 286-290: the schedule check, and the start of a scheduled run.
LoopSched ==
    /\ loopPc = "sched"
    /\ IF schedCondition(cfg, wateredToday, secondsToday)
       THEN /\ setPump(TRUE, << >>)
            /\ loopRemain' = cfg.durationSec
            /\ loopPc' = "schedDelay"
            /\ cancelledBy' = "none"
            /\ schedStarts' = IF schedStarts < 2 THEN schedStarts + 1 ELSE 2
       ELSE /\ loopPc' = "sleep"
            /\ logged' = << >>
            /\ UNCHANGED <<pumpRunning, relayPin, loopRemain, cancelledBy,
                           schedStarts>>
    /\ UNCHANGED <<cfg, prefs, secondsToday, wateredToday, secDue, soilDue, blePc,
                   bleRemain, tuneSum, tuneN, configChr, elapsed, writes, onCmd,
                   autoFired, wallSecond>>

\* Lines 290-293: the scheduled run's delay is over.
LoopSchedDone ==
    /\ loopPc = "schedDelay"
    /\ loopRemain = 0
    /\ setPump(FALSE, << "Scheduled watering done" >>)
    /\ wateredToday' = TRUE
    /\ loopPc' = "sleep"
    /\ cancelledBy' = "none"
    /\ UNCHANGED <<cfg, prefs, secondsToday, secDue, soilDue, loopRemain, blePc,
                   bleRemain, tuneSum, tuneN, configChr, elapsed, writes, onCmd,
                   schedStarts,
                   autoFired, wallSecond>>

\* Line 297: delay(50), after which loop() is entered again.
LoopSleep ==
    /\ loopPc = "sleep"
    /\ loopPc' = "ticker"
    /\ autoFired' = FALSE
    /\ logged' = << >>
    /\ UNCHANGED <<cfg, prefs, pumpRunning, relayPin, secondsToday, wateredToday,
                   secDue, soilDue, loopRemain, blePc, bleRemain, tuneSum, tuneN,
                   configChr, elapsed, writes, onCmd, cancelledBy, schedStarts,
                   wallSecond>>

\* One second of wall-clock time goes by while the loop task is inside a delay().
\* The delay(50) at the end of a pass spans at most one second boundary, so no
\* second goes by there while a tick is still due; the delay of a run spans
\* as many as the run is long.
TimePasses ==
    /\ \/ elapsed < MaxElapsed
       \/ blePc \in TunePcs /\ bleRemain > 0
    /\ ~samplePending
    /\ \/ loopPc = "sleep" /\ ~secDue
       \/ loopPc \in RunPcs /\ loopRemain > 0
    /\ elapsed' = IF elapsed < MaxElapsed THEN elapsed + 1 ELSE elapsed
    /\ secDue' = TRUE
    /\ wallSecond' = (wallSecond + 1) % DaySecs
    /\ soilDue' = TRUE
    /\ loopRemain' = IF loopRemain > 0 THEN loopRemain - 1 ELSE 0
    /\ bleRemain' = IF bleRemain > 0 THEN bleRemain - 1 ELSE 0
    /\ logged' = << >>
    /\ UNCHANGED <<cfg, prefs, pumpRunning, relayPin, secondsToday, wateredToday,
                   loopPc, blePc, tuneSum, tuneN, configChr, writes, onCmd,
                   cancelledBy, schedStarts, autoFired>>

-----------------------------------------------------------------------------
(* The BLE host task: CmdCallbacks::onWrite.  A write is taken up only when *)
(* the task is not blocked inside an earlier callback.                      *)

BleReady == blePc = "idle" /\ writes < MaxWrites

\* The loop task's run, when a command switches the pump off under it.
stoppedBy(cmd) ==
    IF pumpRunning /\ loopPc \in RunPcs THEN cmd ELSE cancelledBy

\* Lines 154-155: "ON".
CmdON ==
    /\ BleReady
    /\ writes' = writes + 1
    /\ setPump(TRUE, << >>)
    /\ onCmd' = TRUE
    /\ UNCHANGED <<cfg, prefs, secondsToday, wateredToday, secDue, soilDue, loopPc,
                   loopRemain, blePc, bleRemain, tuneSum, tuneN, configChr,
                   elapsed, cancelledBy, schedStarts,
                   autoFired, wallSecond>>

\* Lines 156-157: "OFF".
CmdOFF ==
    /\ BleReady
    /\ writes' = writes + 1
    /\ setPump(FALSE, << >>)
    /\ onCmd' = FALSE
    /\ cancelledBy' = stoppedBy("OFF")
    /\ UNCHANGED <<cfg, prefs, secondsToday, wateredToday, secDue, soilDue, loopPc,
                   loopRemain, blePc, bleRemain, tuneSum, tuneN, configChr,
                   elapsed, schedStarts,
                   autoFired, wallSecond>>

\* Lines 158-159: "TOGGLE".
CmdTOGGLE ==
    /\ BleReady
    /\ writes' = writes + 1
    /\ setPump(~pumpRunning, << >>)
    /\ onCmd' = FALSE
    /\ cancelledBy' = stoppedBy("TOGGLE")
    /\ UNCHANGED <<cfg, prefs, secondsToday, wateredToday, secDue, soilDue, loopPc,
                   loopRemain, blePc, bleRemain, tuneSum, tuneN, configChr,
                   elapsed, schedStarts,
                   autoFired, wallSecond>>

\* Lines 161-162: the run length of "WATER:<n>" (toInt() gives 0 for no number).
waterSecs(n, c) == IF n <= 0 THEN c.durationSec ELSE n

\* Lines 160-164: "WATER:<n>" switches the pump on and enters its delay.
CmdWATER(n) ==
    /\ BleReady
    /\ writes' = writes + 1
    /\ setPump(TRUE, << >>)
    /\ bleRemain' \in delaySecs(waterSecs(n, cfg))
    /\ blePc' = "water"
    /\ UNCHANGED <<cfg, prefs, secondsToday, wateredToday, secDue, soilDue, loopPc,
                   loopRemain, tuneSum, tuneN, configChr, elapsed, onCmd,
                   cancelledBy, schedStarts,
                   autoFired, wallSecond>>

\* Lines 165-166: the delay of "WATER:<n>" is over.
WaterDone ==
    /\ blePc = "water"
    /\ bleRemain = 0
    /\ setPump(FALSE, << "Manual watering finished" >>)
    /\ blePc' = "idle"
    /\ UNCHANGED <<cfg, prefs, secondsToday, wateredToday, secDue, soilDue, loopPc,
                   loopRemain, bleRemain, tuneSum, tuneN, configChr, elapsed,
                   writes, onCmd, cancelledBy, schedStarts,
                   autoFired, wallSecond>>

\* Lines 167-169: "AUTOTUNE..." logs and enters the settle delay.
CmdAUTOTUNE ==
    /\ BleReady
    /\ elapsed <= MaxTuneStart
    /\ writes' = writes + 1
    /\ blePc' = "settle"
    /\ bleRemain' = AutotuneSettleSecs
    /\ logged' = << "Autotune started (10 sec dry reading)..." >>
    /\ UNCHANGED <<cfg, prefs, pumpRunning, relayPin, secondsToday, wateredToday,
                   secDue, soilDue, loopPc, loopRemain, tuneSum, tuneN, configChr,
                   elapsed, onCmd, cancelledBy, schedStarts,
                   autoFired, wallSecond>>

\* Lines 170-175: the window opens and the first sample is taken.
AutotuneSettled(r) ==
    /\ blePc = "settle"
    /\ bleRemain = 0
    /\ blePc' = "sample"
    /\ bleRemain' = AutotuneWindowSecs
    /\ tuneSum' = r
    /\ tuneN' = 1
    /\ logged' = << >>
    /\ UNCHANGED <<cfg, prefs, pumpRunning, relayPin, secondsToday, wateredToday,
                   secDue, soilDue, loopPc, loopRemain, configChr, elapsed, writes,
                   onCmd, cancelledBy, schedStarts,
                   autoFired, wallSecond>>

\* Lines 172-176: a further sample.  The soil is taken to be steady during a
\* window: the reading r is the one the earlier samples of the window gave.
AutotuneSample(r) ==
    /\ samplePending
    /\ r * tuneN = tuneSum
    /\ tuneSum' = tuneSum + r
    /\ tuneN' = tuneN + 1
    /\ logged' = << >>
    /\ UNCHANGED <<cfg, prefs, pumpRunning, relayPin, secondsToday, wateredToday,
                   secDue, soilDue, loopPc, loopRemain, blePc, bleRemain, configChr,
                   elapsed, writes, onCmd, cancelledBy, schedStarts,
                   autoFired, wallSecond>>

\* Line 179 with the 200 added to the sum instead of to the average.
tunedThresholdMarginInSum(sum, n) == ((sum + AutotuneMargin) \div n) % U16

\* Lines 178-179: the new threshold, as uint16_t arithmetic.
tunedThreshold(sum, n) == (((sum \div n) % U16) + AutotuneMargin) % U16

\* Lines 177-184: the window is over; threshold is set, saved and notified.
AutotuneDone ==
    /\ blePc = "sample"
    /\ bleRemain = 0
    /\ blePc' = "idle"
    /\ IF tuneN > 0
       THEN /\ cfg' = [cfg EXCEPT !.threshold = tunedThreshold(tuneSum, tuneN)]
            /\ saveConfig(cfg')
            /\ configChr' = packConfig(cfg')
            /\ logged' = << "Autotune done" >>
       ELSE /\ logged' = << >>
            /\ UNCHANGED <<cfg, prefs, configChr>>
    /\ tuneSum' = 0
    /\ tuneN' = 0
    /\ UNCHANGED <<pumpRunning, relayPin, secondsToday, wateredToday, secDue,
                   soilDue, loopPc, loopRemain, bleRemain, elapsed, writes, onCmd,
                   cancelledBy, schedStarts,
                   autoFired, wallSecond>>

\* Lines 185-186: any other text.
CmdUnknown ==
    /\ BleReady
    /\ writes' = writes + 1
    /\ logged' = << "Unknown command" >>
    /\ UNCHANGED <<cfg, prefs, pumpRunning, relayPin, secondsToday, wateredToday,
                   secDue, soilDue, loopPc, loopRemain, blePc, bleRemain, tuneSum,
                   tuneN, configChr, elapsed, onCmd, cancelledBy, schedStarts,
                   autoFired, wallSecond>>

\* Lines 149-188: CmdCallbacks::onWrite for the bytes value written to the
\* command characteristic.
CmdOnWrite(value) ==
    LET cmd == cString(value)
    IN  \/ BleReady /\ command(cmd) = "ON" /\ CmdON
        \/ BleReady /\ command(cmd) = "OFF" /\ CmdOFF
        \/ BleReady /\ command(cmd) = "TOGGLE" /\ CmdTOGGLE
        \/ BleReady /\ command(cmd) = "WATER"
              /\ CmdWATER(toInt(substring(cmd, 6)))
        \/ BleReady /\ command(cmd) = "AUTOTUNE" /\ CmdAUTOTUNE
        \/ BleReady /\ command(cmd) = "UNKNOWN" /\ CmdUnknown

-----------------------------------------------------------------------------
(* The BLE host task: ConfigCallbacks. *)

\* unpackConfig() with the length check off by one: 9 bytes are accepted.
unpackConfigOffByOne(data) ==
    IF Len(data) < RecordLen - 1
    THEN UNCHANGED <<cfg, prefs>>
    ELSE /\ cfg' = unpackFields(data)
         /\ saveConfig(unpackFields(data))

\* Lines 96-106: unpackConfig(data, len).
unpackConfig(data) ==
    IF Len(data) < RecordLen
    THEN UNCHANGED <<cfg, prefs>>
    ELSE /\ cfg' = unpackFields(data)
         /\ saveConfig(unpackFields(data))

\* Lines 195-199: a write to the config characteristic.
ConfigOnWrite(data) ==
    /\ BleReady
    /\ writes' = writes + 1
    /\ configChr' = data
    /\ unpackConfig(data)
    /\ logged' = << "Config updated from app" >>
    /\ UNCHANGED <<pumpRunning, relayPin, secondsToday, wateredToday, secDue,
                   soilDue, loopPc, loopRemain, blePc, bleRemain, tuneSum, tuneN,
                   elapsed, onCmd, cancelledBy, schedStarts,
                   autoFired, wallSecond>>

\* Lines 192-194: a read of the config characteristic.
ConfigOnRead ==
    /\ BleReady
    /\ writes' = writes + 1
    /\ configChr' = packConfig(cfg)
    /\ logged' = << >>
    /\ UNCHANGED <<cfg, prefs, pumpRunning, relayPin, secondsToday, wateredToday,
                   secDue, soilDue, loopPc, loopRemain, blePc, bleRemain, tuneSum,
                   tuneN, elapsed, onCmd, cancelledBy, schedStarts,
                   autoFired, wallSecond>>

-----------------------------------------------------------------------------

Next ==
    \/ LoopTicker
    \/ \E soil \in SoilReadings : LoopSoil(soil)
    \/ LoopSoilSkip
    \/ LoopAutoDone
    \/ LoopSched
    \/ LoopSchedDone
    \/ LoopSleep
    \/ TimePasses
    \/ \E value \in CmdTexts : CmdOnWrite(value)
    \/ WaterDone
    \/ \E r \in TuneReadings : AutotuneSettled(r)
    \/ \E r \in TuneReadings : AutotuneSample(r)
    \/ AutotuneDone
    \/ \E data \in ConfigPayloads : ConfigOnWrite(data)
    \/ ConfigOnRead

Spec == Init /\ [][Next]_vars

-----------------------------------------------------------------------------
(* Vocabulary of the properties. *)

\* The step called setPump: it logged "Pump ON" or "Pump OFF".
PumpCalled(lines) ==
    \E i \in DOMAIN lines : lines[i] \in { "Pump ON", "Pump OFF" }

\* The timed runs in progress: the loop task's, and the WATER command's.
ActiveRuns ==
    (IF loopPc \in RunPcs THEN { "loop" } ELSE { })
        \cup (IF blePc = "water" THEN { "water" } ELSE { })

\* A step at which a trigger for a new run arrives.
OnArrives == CmdON

WaterArrives == \E n \in WaterArgs : CmdWATER(n)

ThresholdArrives ==
    \E soil \in SoilReadings :
        LoopSoil(soil) /\ ~cfg.scheduleOn /\ soil > cfg.threshold

ScheduleArrives ==
    LoopSched /\ cfg.scheduleOn /\ ~wateredToday /\ inWindow(cfg, secondsToday)

-----------------------------------------------------------------------------
(* C1.  Starting a new run while the pump is Running is a no-op: whichever  *)
(* trigger arrives (ON, WATER:<n>, threshold, schedule) while pumpRunning   *)
(* is true, pumpRunning and the runs in progress stay as they are and       *)
(* setPump is not called.                                                   *)
C1_StartWhileRunningIsNoOp ==
    [][ (pumpRunning /\ (OnArrives \/ WaterArrives \/ ThresholdArrives
                            \/ ScheduleArrives))
          => (pumpRunning' /\ ActiveRuns' = ActiveRuns /\ ~PumpCalled(logged')) ]_vars

(* C2.  With the schedule on, at most one scheduled run is started during   *)
(* one pass of secondsToday from 0 through 86399.                           *)
C2_OneScheduledRunPerDay == schedStarts <= 1

(* C3.  With scheduleOn false, a soil evaluation with reading s starts a    *)
(* run (Idle to Running) if and only if s > threshold and the pump is Idle  *)
(* at that evaluation.                                                      *)
C3_ThresholdStartIff ==
    [][ \A soil \in SoilReadings :
          (LoopSoil(soil) /\ ~cfg.scheduleOn)
            => ((~pumpRunning /\ pumpRunning' /\ loopPc' = "autoDelay")
                  <=> (soil > cfg.threshold /\ ~pumpRunning)) ]_vars

\* A threshold run has just been started from a soil reading, with the schedule off.
C3_Witness ==
    /\ loopPc = "autoDelay"
    /\ pumpRunning
    /\ autoFired
    /\ ~cfg.scheduleOn
    /\ logged = << "Pump ON" >>

(* C4.  A manual OFF cancels the pending automatic completion of the run it *)
(* stops: the completion step of a run that OFF has stopped is never taken. *)
C4_OffCancelsCompletion ==
    [][ (LoopAutoDone \/ LoopSchedDone) => cancelledBy # "OFF" ]_vars

(* C5.  A threshold run and a scheduled run never both fire within one pass *)
(* of the evaluation loop.                                                  *)
C5_NotBothInOnePass == ~(autoFired /\ loopPc = "schedDelay")

(* C6.  After an ON command the pump stays on until an OFF or a TOGGLE      *)
(* command: while an ON is in force, the pump is running.                   *)
C6_OnStaysOn == onCmd => pumpRunning

(* C7.  The pump is never left on indefinitely: whenever it is on, a cutoff *)
(* is pending that switches it off without any further command.  The only   *)
(* steps that switch the pump off uncommanded are the completions of the    *)
(* timed runs.                                                              *)
C7_CutoffPending == pumpRunning => ActiveRuns # { }

(* C8.  An OFF, or a TOGGLE while the pump is on, cancels the timed run in  *)
(* progress at once: the pump is off and no run is left pending.            *)
C8_StopAbandonsRun ==
    [][ ((CmdOFF \/ (CmdTOGGLE /\ pumpRunning)) /\ ActiveRuns # { })
          => (~pumpRunning' /\ ActiveRuns' = { }) ]_vars

(* C9.  A config write shorter than 10 bytes changes no Config field, not   *)
(* the persisted configuration, and not the pump state.                     *)
C9_ShortWriteRejected ==
    [][ \A data \in ConfigPayloads :
          (ConfigOnWrite(data) /\ Len(data) < RecordLen)
            => UNCHANGED <<cfg, prefs, pumpRunning, relayPin>> ]_vars

\* A short payload has just been written, over a configuration that differs
\* from the one the payload begins to spell.
C9_Witness ==
    /\ Len(configChr) = RecordLen - 1
    /\ logged = << "Config updated from app" >>
    /\ cfg # CfgMidnight
    /\ prefs # << >>

-----------------------------------------------------------------------------
(* The codec on its own: a client reads the config characteristic and writes *)
(* the record it read back, for Configs drawn from the field widths.         *)

CodecConfigs ==
    [ threshold      : { 0, 255, 256, 2200, 65535 },
      flowPct        : { 0, 100, 255 },
      startHour      : { 0, 23, 255 },
      startMin       : { 0, 59 },
      durationSec    : { 0, 30, 256, 65535 },
      scheduleOn     : BOOLEAN,
      relayActiveLow : BOOLEAN ]

CodecInit ==
    /\ cfg \in CodecConfigs
    /\ prefs = NoPrefs
    /\ pumpRunning = FALSE
    /\ relayPin = relayLevel(DefaultConfig, FALSE)
    /\ secondsToday = 0
    /\ wateredToday = FALSE
    /\ secDue = FALSE
    /\ soilDue = FALSE
    /\ loopPc = "ticker"
    /\ loopRemain = 0
    /\ blePc = "idle"
    /\ bleRemain = 0
    /\ tuneSum = 0
    /\ tuneN = 0
    /\ configChr = << >>
    /\ logged = << >>
    /\ elapsed = 0
    /\ writes = 0
    /\ onCmd = FALSE
    /\ cancelledBy = "none"
    /\ schedStarts = 0
    /\ autoFired = FALSE
    /\ wallSecond = 0

\* The client writes back the record the characteristic holds.
WriteBack == Len(configChr) = RecordLen /\ ConfigOnWrite(configChr)

CodecNext == ConfigOnRead \/ WriteBack

CodecSpec == CodecInit /\ [][CodecNext]_vars

(* C10.  Round trip: decoding the 10-byte record that encode produced for   *)
(* the current Config leaves every field of the Config as it was.           *)
C10_RoundTrip ==
    [][ (WriteBack /\ configChr = packConfig(cfg)) => cfg' = cfg ]_vars

\* A Config whose 16-bit fields need both bytes, and whose flags are set, has
\* been encoded, written back and saved.
C10_Witness ==
    /\ writes = 2
    /\ configChr = packConfig(cfg)
    /\ prefs = << cfg >>
    /\ cfg.threshold = 65535
    /\ cfg.durationSec = 256
    /\ cfg.scheduleOn
    /\ cfg.relayActiveLow

-----------------------------------------------------------------------------
(* Day rollover and the clock. *)

\* A step of the loop task that counts one second (lines 253-257 taken).
ClockTick == LoopTicker /\ secDue

\* C11: whenever a clock tick leaves secondsToday in [0, 10), the wrap from
\* 86399 to 0 included, wateredToday is false after that tick, whatever it
\* was before.
C11_RolloverResetsWatered ==
    [][ClockTick /\ secondsToday' < ResetSecs => ~wateredToday']_vars

\* A tick has left the counter inside the first ten seconds of the day after
\* today's scheduled run had completed and set wateredToday.
C11_Witness ==
    /\ loopPc = "soil"
    /\ secondsToday \in 1 .. (ResetSecs - 1)
    /\ schedStarts >= 1
    /\ ~wateredToday
    /\ ~pumpRunning

\* C18: secondsToday is in [0, 86400) in every reachable state, and each clock
\* tick sets it to (previous value + 1) mod 86400.
C18_SecondsOfDay ==
    /\ [](secondsToday \in 0 .. (DaySecs - 1))
    /\ [][ClockTick => secondsToday' = (secondsToday + 1) % DaySecs]_vars

\* The tick from 86399 has wrapped the counter to 0, two seconds after a start
\* at 86398.
C18_Witness ==
    /\ loopPc = "soil"
    /\ secondsToday = 0
    /\ ~secDue
    /\ elapsed >= 2

\* C15: secondsToday is incremented once per wall-clock second: k seconds after
\* the start, seconds spent inside a threshold or scheduled run included, it
\* equals the start second plus k, modulo 86400.  Stated where the ticker of
\* the current pass of loop() has just run, so that no tick is still due.
C15_ClockKeepsWallTime == loopPc = "soil" => secondsToday = wallSecond

-----------------------------------------------------------------------------
(* The relay, the Config ranges and persistence. *)

\* C14: in every state after setup the relay output agrees with pumpRunning
\* under the current polarity: the pin is at the active level of the current
\* cfg.relayActiveLow exactly when pumpRunning is true.
C14_RelayAgreesWithPump == (relayPin = relayLevel(cfg, TRUE)) <=> pumpRunning

\* C16: in every reachable state startHour is in 0..23, startMin in 0..59 and
\* flowPct in 0..100.
C16_FieldsInRange ==
    /\ cfg.startHour \in 0 .. 23
    /\ cfg.startMin \in 0 .. 59
    /\ cfg.flowPct \in 0 .. 100

\* C17: every operation that changes cfg has saved it before it returns, so in
\* every state a reload (loadConfig over the stored keys, the defaults where
\* nothing is stored) returns exactly the current Config.
C17_ReloadReturnsConfig == loadConfig(prefs, DefaultConfig) = cfg

\* AUTOTUNE has completed after an accepted config write: the threshold it
\* computed is the stored one, on top of the fields the write stored.
C17_Witness ==
    /\ logged = << "Autotune done" >>
    /\ cfg.threshold = 1000 + AutotuneMargin
    /\ cfg.startHour = 200
    /\ prefs = << cfg >>

-----------------------------------------------------------------------------
(* The command texts. *)

\* The texts that are one of ON, OFF, TOGGLE, WATER:<n> and AUTOTUNE.
namedCommand(value) ==
    \/ value \in { TextON, TextOFF, TextTOGGLE, TextAUTOTUNE }
    \/ startsWith(value, TextWATER)

\* C13: a command text that is not one of ON, OFF, TOGGLE, WATER:<n> and
\* AUTOTUNE is logged as unrecognised and changes nothing: pumpRunning, cfg,
\* the stored configuration, secondsToday and wateredToday stay as they were.
C13_UnknownTextIgnored ==
    [][ \A value \in CmdTexts :
          CmdOnWrite(value) /\ ~namedCommand(value)
            => /\ logged' = << "Unknown command" >>
               /\ UNCHANGED <<pumpRunning, cfg, prefs, secondsToday,
                              wateredToday>> ]_vars

\* The seconds WATER:<n> is to run for: n where n > 0, durationSec otherwise.
waterRunSecs(value) ==
    IF toInt(substring(value, 6)) > 0
    THEN toInt(substring(value, 6))
    ELSE cfg.durationSec

\* C19: WATER:<n> runs the pump for n seconds where n > 0 and for durationSec
\* seconds otherwise, then stops the pump and logs completion: the delay it
\* enters is of that length, the pump is on until the delay is over, and the
\* pump is Idle after the command, whatever it was before.
C19_WaterRunsThenStops ==
    /\ [][ \A value \in CmdTexts :
              CmdOnWrite(value) /\ startsWith(value, TextWATER)
                => pumpRunning' /\ bleRemain' = waterRunSecs(value) ]_vars
    /\ [](blePc = "water" /\ bleRemain > 0 => pumpRunning)
    /\ [][ WaterDone
              => /\ ~pumpRunning'
                 /\ logged' = << "Pump OFF", "Manual watering finished" >> ]_vars

-----------------------------------------------------------------------------
(* AUTOTUNE over the whole range of readings: the loop task runs as ever *)
(* and the one command written is AUTOTUNE.                               *)

TuneNext ==
    \/ LoopTicker
    \/ \E soil \in SoilReadings : LoopSoil(soil)
    \/ LoopSoilSkip
    \/ LoopAutoDone
    \/ LoopSched
    \/ LoopSchedDone
    \/ LoopSleep
    \/ TimePasses
    \/ CmdAUTOTUNE
    \/ \E r \in WideReadings : AutotuneSettled(r)
    \/ \E r \in WideReadings : AutotuneSample(r)
    \/ AutotuneDone

TuneSpec == Init /\ [][TuneNext]_vars

\* The reading of a window whose samples are all the same.
steadyReading == tuneSum \div tuneN

====
